---- MODULE Spec2Model ----
(***************************************************************************)
(* Conversation orchestration of the chat application: the App component   *)
(* (src/App.tsx), the chat history service and the generation service      *)
(* (src/unnamed/part_000) and the search history service                   *)
(* (src/unnamed/part_001).                                                 *)
(*                                                                         *)
(* React state is modelled by one variable per useState cell.  A handler   *)
(* is a closure of the render it was created in, and React renders after   *)
(* every update: a handler that is called reads the current state          *)
(* (`view`), and an async handler keeps the values it captured when it     *)
(* was called for all of its later steps (inv[i].sessions and              *)
(* inv[i].activeSessionId), whatever the state has become by then.         *)
(*                                                                         *)
(* Texts are TLA+ strings; the two non-ASCII texts of the source are       *)
(* written in ASCII (the warning sign of the error prefix as "[!]", the    *)
(* accented letters without accent).                                       *)
(***************************************************************************)
EXTENDS Integers, Sequences, FiniteSets, TLC

\* ---------------------------------------------------------------- bounds
\* turn handler calls that get past the guard
MaxCalls == 2
\* sessions created by createNewSession
MaxCreates == 2

\* ------------------------------------------------------------ JS values
Null == "null"
Absent == "absent"
Undefined == "undefined"

\* `new Date().toISOString()`: the text of the clock's reading
toISOString(t) == ToString(t)

\* a Message of src/types: optional fields are Absent when the object has
\* no such key, Undefined when the key is there and holds undefined
Message(sender, text, imageUrl, videoUrl) ==
    [sender |-> sender, text |-> text, imageUrl |-> imageUrl, videoUrl |-> videoUrl]

ChatSession(id, title, messages) ==
    [id |-> id, title |-> title, messages |-> messages]

\* ---------------------------------------------------------- program texts
DefaultTitle == "Novo Chat"
DefaultImagePrompt == "Descreva esta imagem."
ErrorPrefix == "[!] **Erro:** "
WaitingText == "Criando seu video... Isso pode levar alguns minutos. Vou te avisar assim que estiver pronto!"
ImageRequestText(prompt) == "Gerar imagem: \"" \o prompt \o "\""
VideoRequestText(prompt) == "Gerar video: \"" \o prompt \o "\""
ImageResultText(prompt) == "Imagem gerada para: \"" \o prompt \o "\""
VideoResultText(prompt) == "Aqui esta o video que voce pediu: \"" \o prompt \o "\""
ImageDataUrl(base64Image) == "data:image/png;base64," \o base64Image
BlobUrl == "blob:image"
ApiKey == "KEY"

\* ------------------------------------------------------- inputs (finite)
\* what the user sends: the text typed and whether an image is attached
Sends == {<<"q", FALSE>>, <<"", TRUE>>, <<"", FALSE>>}
\* the prompt of an image or video request
Prompts == {"p"}
\* what the provider sends on a stream, chunk by chunk (an empty chunk too);
\* a stream can end or fail after any number of them
Streams == {<<"", "Hi", " there">>}
Chunks == {"", "Hi", " there"}
\* the patterns the classifier looks for in a raw error's message
ErrorPatterns == {"billed users", "API key not valid", "quota"}
\* a raw provider error, by the patterns its message contains
RawErrors == {{}, {"billed users", "quota"}}
\* titles the title request can come back with (already cleaned)
Titles == {"Trip to Japan"}

VARIABLES
    store,                \* localStorage[CHAT_HISTORY_KEY], parsed
    search,               \* localStorage[SEARCH_HISTORY_KEY], parsed
    sessions,             \* useState: sessions
    activeSessionId,      \* useState: activeSessionId
    isLoading,            \* useState: isLoading
    streamingMessage,     \* useState: streamingMessage (<<>> is null)
    isImageGenAvailable,  \* useState
    isVideoGenAvailable,  \* useState
    inv,                  \* the calls of the async turn handlers
    now,                  \* the clock, in milliseconds
    mounted,              \* the mount effect has run
    svc                   \* a call of a geminiService function, on its own

vars == <<store, search, sessions, activeSessionId, isLoading, streamingMessage,
          isImageGenAvailable, isVideoGenAvailable, inv, now, mounted, svc>>

\* --------------------------------------------------- chatHistoryService
\* JSON.stringify drops a key that holds undefined
JSONMessage(m) ==
    [m EXCEPT !.imageUrl = IF @ = Undefined THEN Absent ELSE @,
              !.videoUrl = IF @ = Undefined THEN Absent ELSE @]

JSONSession(s) ==
    [s EXCEPT !.messages = [j \in 1..Len(s.messages) |-> JSONMessage(s.messages[j])]]

\* (a slip: the sessions come back in the opposite order)
JSONRoundTrip_Reversed(history) ==
    [k \in 1..Len(history) |-> JSONSession(history[Len(history) + 1 - k])]

\* JSON.parse(JSON.stringify(history))
JSONRoundTrip(history) == [k \in 1..Len(history) |-> JSONSession(history[k])]

\* getChatHistory(): a missing item and "[]" both load as []
getChatHistory == store

\* saveChatHistory(history): the new value of the item (setItem is taken to
\* succeed; when it throws, the error is logged and the item is left as it is)
saveChatHistory(history) == JSONRoundTrip(history)

\* history.find(s => s.id === sessionId): the index of the first match, 0 if none
FindIndex(history, sessionId) ==
    IF \E k \in 1..Len(history) : history[k].id = sessionId
    THEN CHOOSE k \in 1..Len(history) :
            /\ history[k].id = sessionId
            /\ \A j \in 1..(k - 1) : history[j].id # sessionId
    ELSE 0

\* createNewSession(): the session made and the item saved
NewSession == ChatSession(toISOString(now), DefaultTitle, <<>>)
createNewSession(stored) == saveChatHistory(<<NewSession>> \o stored)

\* updateSessionTitle(sessionId, title): <<the item, the history returned>>
updateSessionTitle(stored, sessionId, title) ==
    LET k == FindIndex(stored, sessionId)
        history == IF k = 0 THEN stored ELSE [stored EXCEPT ![k].title = title]
    IN  [saved |-> IF k = 0 THEN stored ELSE saveChatHistory(history),
         history |-> history]

\* (a slip: the filter keeps every session)
deleteSession_KeepsAll(stored, sessionId) == saveChatHistory(stored)

\* deleteSession(sessionId)
deleteSession(stored, sessionId) ==
    LET keep(s) == s.id # sessionId
    IN  saveChatHistory(SelectSeq(stored, keep))

\* ------------------------------------------------- searchHistoryService
MAX_HISTORY_SIZE == 100

\* String.prototype.toLowerCase on the texts of the model
toLowerCase(s) ==
    CASE s = "Q" -> "q"
      [] s = "Cat" -> "cat"
      [] s = "DOG" -> "dog"
      [] OTHER -> s

\* (a slip: the filter compares the entries as they are)
addSearchHistoryEntry_CaseSensitive(history, query) ==
    IF query = "" THEN history
    ELSE LET other(item) == item # query
             added == <<query>> \o SelectSeq(history, other)
         IN  IF Len(added) > MAX_HISTORY_SIZE
             THEN SubSeq(added, 1, MAX_HISTORY_SIZE)
             ELSE added

\* (a slip: the size is not enforced)
addSearchHistoryEntry_Uncapped(history, query) ==
    IF query = "" THEN history
    ELSE LET other(item) == toLowerCase(item) # toLowerCase(query)
         IN  <<query>> \o SelectSeq(history, other)

addSearchHistoryEntry(history, query) ==
    IF query = "" THEN history
    ELSE LET other(item) == toLowerCase(item) # toLowerCase(query)
             added == <<query>> \o SelectSeq(history, other)
         IN  IF Len(added) > MAX_HISTORY_SIZE
             THEN SubSeq(added, 1, MAX_HISTORY_SIZE)
             ELSE added

\* deleteSearchHistoryEntry(query): the history saved and returned
deleteSearchHistoryEntry(history, query) ==
    LET other(item) == item # query
    IN  SelectSeq(history, other)

\* clearSearchHistory()
clearSearchHistory == <<>>

\* ---------------------------------------------------------- geminiService
ChatContext == "resposta do chat"
ImageContext == "geracao de imagem"
VideoContext == "geracao de video"

\* context.includes(word), for the contexts and the words the classifier uses
ContextIncludes(context, word) ==
    \/ context = ImageContext /\ word = "imagem"
    \/ context = VideoContext /\ word = "video"

BillingText(featureName) ==
    "A " \o featureName \o " esta indisponivel. A API do Google requer que o faturamento esteja ativado para este recurso."
InvalidKeyText == "Sua chave de API e invalida. Por favor, verifique-a nas configuracoes e tente novamente."
QuotaText == "Voce atingiu sua cota de uso da API. Por favor, verifique seu plano ou tente novamente mais tarde."
UnknownText(context) ==
    "Desculpe, ocorreu um erro inesperado durante a " \o context \o ". Por favor, tente novamente."

\* a message of a raw error, by the patterns it contains; none when the
\* property is missing or empty
NoMessage == [has |-> FALSE, includes |-> {}]
HasMessage(patterns) == [has |-> TRUE, includes |-> patterns]

\* the errorMessage handleApiError reads from a raw error, by the patterns it
\* contains: error.error.message, else error.message, of an object; the
\* error itself when it is a string; else 'An unknown error occurred.'
ErrorMessageOf(raw) ==
    IF raw.type = "object"
    THEN IF raw.nested.has THEN raw.nested.includes
         ELSE IF raw.message.has THEN raw.message.includes
         ELSE {}
    ELSE IF raw.type = "string" THEN raw.text
    ELSE {}

\* (a slip: the quota pattern is looked for first)
handleApiError_QuotaFirst(error, context) ==
    IF "quota" \in error
    THEN [billing |-> FALSE, message |-> QuotaText]
    ELSE IF "billed users" \in error
    THEN [billing |-> TRUE,
          message |-> BillingText(IF ContextIncludes(context, "imagem") THEN "geracao de imagens"
                                  ELSE IF ContextIncludes(context, "video") THEN "geracao de video"
                                  ELSE "esta funcionalidade")]
    ELSE IF "API key not valid" \in error
    THEN [billing |-> FALSE, message |-> InvalidKeyText]
    ELSE [billing |-> FALSE, message |-> UnknownText(context)]

\* handleApiError(error, context), error given by the patterns its message
\* contains: the error it returns, billing = it is a BillingError
handleApiError(error, context) ==
    IF "billed users" \in error
    THEN [billing |-> TRUE,
          message |-> BillingText(IF ContextIncludes(context, "imagem") THEN "geracao de imagens"
                                  ELSE IF ContextIncludes(context, "video") THEN "geracao de video"
                                  ELSE "esta funcionalidade")]
    ELSE IF "API key not valid" \in error
    THEN [billing |-> FALSE, message |-> InvalidKeyText]
    ELSE IF "quota" \in error
    THEN [billing |-> FALSE, message |-> QuotaText]
    ELSE [billing |-> FALSE, message |-> UnknownText(context)]

\* generateImage: a response without image bytes throws inside the try, and
\* the catch classifies that error (its message holds none of the patterns)
NoImageError == {}
\* generateVideo: the same for a finished operation without a uri
NoVideoError == {}
\* generateVideo: the url returned for a download link
VideoUrl(downloadLink) == downloadLink \o "&key=" \o ApiKey

\* generateChatTitle: the fallback of a failed request or an empty title
FallbackTitle(language) == IF language = "pt-BR" THEN "Novo Chat" ELSE "New Chat"
language == "pt-BR"

\* no function of the service has been called on its own
NoCall == [fn |-> "none"]

\* -------------------------------------------------------------------- App
\* (a slip: the text is the error's message alone)
ErrorMessage_NoPrefix(thrown) == Message("model", thrown.message, Absent, Absent)

\* a failure, as the catch blocks show it: { sender: 'model', text: prefix + message }
ErrorMessage(thrown) == Message("model", ErrorPrefix \o thrown.message, Absent, Absent)

Calls == 1..MaxCalls

\* const activeSession = sessions.find(s => s.id === activeSessionId), in a
\* closure that captured `closed`
ActiveSessionFound(closed) == FindIndex(closed.sessions, closed.activeSessionId) # 0
ActiveSession(closed) == closed.sessions[FindIndex(closed.sessions, closed.activeSessionId)]

\* activeSession?.messages ? [...activeSession.messages, userMessage] : [userMessage]
CurrentMessages(closed, userMessage) ==
    IF ActiveSessionFound(closed)
    THEN Append(ActiveSession(closed).messages, userMessage)
    ELSE <<userMessage>>

\* (a slip: the new messages are added to the session's messages)
updateMessages_Appending(closedSessions, sessionId, newMessages) ==
    [k \in 1..Len(closedSessions) |->
        IF closedSessions[k].id = sessionId
        THEN [closedSessions[k] EXCEPT !.messages = @ \o newMessages]
        ELSE closedSessions[k]]

\* updateMessages(sessionId, newMessages) in a closure whose `sessions` is
\* closedSessions: the collection it sets and saves
updateMessages(closedSessions, sessionId, newMessages) ==
    [k \in 1..Len(closedSessions) |->
        IF closedSessions[k].id = sessionId
        THEN [closedSessions[k] EXCEPT !.messages = newMessages]
        ELSE closedSessions[k]]

\* what a render gives to the handlers it creates
Rendered(s, a, l, ig, vg) ==
    [sessions |-> s, activeSessionId |-> a, isLoading |-> l,
     isImageGenAvailable |-> ig, isVideoGenAvailable |-> vg]

view == Rendered(sessions, activeSessionId, isLoading,
                    isImageGenAvailable, isVideoGenAvailable)

\* a call slot nobody uses
FreeCall ==
    [pc |-> "free", kind |-> "none", sessions |-> <<>>, activeSessionId |-> Null,
     messageText |-> "", imageFile |-> FALSE, prompt |-> "",
     currentMessages |-> <<>>, fullResponse |-> "", chunks |-> <<>>,
     title |-> Null, outcome |-> <<>>]

InFlight(i) == inv[i].pc \in {"convert", "title", "stream", "image", "video"}
FirstFree(i) == inv[i].pc = "free" /\ \A j \in 1..(i - 1) : inv[j].pc # "free"

Ids(s) == {s[k].id : k \in 1..Len(s)}

\* what localStorage holds when the application starts
InitialStores == {<<>>}

Init ==
    /\ store \in InitialStores
    /\ search = <<>>
    /\ sessions = <<>>
    /\ activeSessionId = Null
    /\ isLoading = FALSE
    /\ streamingMessage = <<>>
    /\ isImageGenAvailable = TRUE
    /\ isVideoGenAvailable = TRUE
    /\ inv = [i \in Calls |-> FreeCall]
    /\ now = 1
    /\ mounted = FALSE
    /\ svc = NoCall

\* the ids some session, render or call holds
IdsInUse ==
    Ids(store) \cup Ids(sessions) \cup Ids(view.sessions)
        \cup {activeSessionId, view.activeSessionId}
        \cup UNION {Ids(inv[i].sessions) \cup {inv[i].activeSessionId} : i \in Calls}

\* time passes (ids are only ever compared, so only a reading of the clock
\* that became an id needs to pass)
Tick ==
    /\ now < MaxCreates
    /\ toISOString(now) \in IdsInUse
    /\ now' = now + 1
    /\ UNCHANGED <<store, search, sessions, activeSessionId, isLoading, streamingMessage,
                   isImageGenAvailable, isVideoGenAvailable, inv, mounted, svc>>

\* the mount effect (useEffect, [])
Mount ==
    /\ ~mounted
    /\ mounted' = TRUE
    /\ LET history == getChatHistory
       IN  IF Len(history) > 0
           THEN /\ sessions' = history
                /\ activeSessionId' = history[1].id
                /\ store' = store
           ELSE \* handleNewSession()
                /\ store' = createNewSession(getChatHistory)
                /\ sessions' = <<NewSession>> \o history
                /\ activeSessionId' = NewSession.id
    /\ UNCHANGED <<search, isLoading, streamingMessage, isImageGenAvailable,
                   isVideoGenAvailable, inv, now, svc>>

\* ------------------------------------------------------ session lifecycle
handleNewSession ==
    /\ mounted
    /\ Len(getChatHistory) < MaxCreates
    /\ store' = createNewSession(getChatHistory)
    /\ sessions' = <<NewSession>> \o sessions
    /\ activeSessionId' = NewSession.id
    /\ UNCHANGED <<search, isLoading, streamingMessage, isImageGenAvailable,
                   isVideoGenAvailable, inv, now, mounted, svc>>

handleDeleteSession(id) ==
    /\ mounted
    /\ id \in Ids(view.sessions)
    /\ LET updatedSessions == deleteSession(getChatHistory, id)
       IN  IF view.activeSessionId = id /\ Len(updatedSessions) = 0
           THEN \* setActiveSessionId(null); handleNewSession()
                /\ store' = createNewSession(updatedSessions)
                /\ sessions' = <<NewSession>> \o updatedSessions
                /\ activeSessionId' = NewSession.id
           ELSE /\ store' = updatedSessions
                /\ sessions' = updatedSessions
                /\ activeSessionId' = IF view.activeSessionId = id
                                      THEN updatedSessions[1].id
                                      ELSE activeSessionId
    /\ UNCHANGED <<search, isLoading, streamingMessage, isImageGenAvailable,
                   isVideoGenAvailable, inv, now, mounted, svc>>

\* (a slip: the empty history is set but not saved before the new session
\* is created)
handleClearAllHistory_KeepsSaved ==
    /\ mounted
    /\ store' = createNewSession(getChatHistory)
    /\ sessions' = <<NewSession>>
    /\ activeSessionId' = NewSession.id
    /\ UNCHANGED <<search, isLoading, streamingMessage, isImageGenAvailable,
                   isVideoGenAvailable, inv, now, mounted, svc>>

handleClearAllHistory ==
    /\ mounted
    /\ store' = createNewSession(saveChatHistory(<<>>))
    /\ sessions' = <<NewSession>>
    /\ activeSessionId' = NewSession.id
    /\ UNCHANGED <<search, isLoading, streamingMessage, isImageGenAvailable,
                   isVideoGenAvailable, inv, now, mounted, svc>>

\* the Sidebar's onSelectSession, for a session of the list it shows
onSelectSession(id) ==
    /\ mounted
    /\ id \in Ids(view.sessions)
    /\ activeSessionId' = id
    /\ UNCHANGED <<store, search, sessions, isLoading, streamingMessage,
                   isImageGenAvailable, isVideoGenAvailable, inv, now, mounted, svc>>

\* ------------------------------------------------------------- chat turns
\* what call i captured when it was made
Closure(i) == [sessions |-> inv[i].sessions, activeSessionId |-> inv[i].activeSessionId]

\* the call, once it has returned
Finished(call, outcome, how) ==
    [FreeCall EXCEPT !.pc = how, !.kind = call.kind,
                     !.activeSessionId = call.activeSessionId,
                     !.fullResponse = IF how = "failed" THEN call.fullResponse ELSE "",
                     !.outcome = outcome]

\* handleSendMessage from `if (!userMessageText) return` to the first await
\* after it: the user message is recorded and saved, the flag is set, and
\* the title request or the stream request is made
Sending(i, closed, messageText, imageFile) ==
    LET userMessageText == IF imageFile /\ messageText = ""
                           THEN DefaultImagePrompt ELSE messageText
        userMessage == Message("user", userMessageText,
                               IF imageFile THEN BlobUrl ELSE Undefined, Absent)
        currentMessages == CurrentMessages(closed, userMessage)
        updatedSessions == updateMessages(closed.sessions, closed.activeSessionId,
                                          currentMessages)
    IN  /\ search' = addSearchHistoryEntry(search, userMessageText)
        /\ sessions' = updatedSessions
        /\ store' = saveChatHistory(updatedSessions)
        /\ isLoading' = TRUE
        /\ streamingMessage' = <<Message("model", "", Absent, Absent)>>
        /\ inv' = [inv EXCEPT ![i] =
                     [FreeCall EXCEPT
                        !.pc = IF Len(currentMessages) = 1 THEN "title" ELSE "stream",
                        !.kind = "chat",
                        !.sessions = closed.sessions,
                        !.activeSessionId = closed.activeSessionId,
                        !.messageText = userMessageText,
                        !.imageFile = imageFile,
                        !.currentMessages = currentMessages]]

handleSendMessage(messageText, imageFile) ==
    IF view.isLoading \/ view.activeSessionId = Null
       THEN UNCHANGED <<store, search, sessions, activeSessionId, isLoading,
                        streamingMessage, isImageGenAvailable, isVideoGenAvailable,
                        inv, now, mounted, svc>>
       ELSE IF imageFile
       THEN \* await fileToBase64(imageFile)
            /\ \E i \in Calls :
                 /\ FirstFree(i)
                 /\ inv' = [inv EXCEPT ![i] =
                              [FreeCall EXCEPT !.pc = "convert", !.kind = "chat",
                                               !.sessions = view.sessions,
                                               !.activeSessionId = view.activeSessionId,
                                               !.messageText = messageText,
                                               !.imageFile = TRUE]]
            /\ UNCHANGED <<store, search, sessions, activeSessionId, isLoading,
                           streamingMessage, isImageGenAvailable, isVideoGenAvailable,
                           now, mounted, svc>>
       ELSE IF messageText = ""
       THEN UNCHANGED <<store, search, sessions, activeSessionId, isLoading,
                        streamingMessage, isImageGenAvailable, isVideoGenAvailable,
                        inv, now, mounted, svc>>
       ELSE /\ \E i \in Calls : FirstFree(i) /\ Sending(i, view, messageText, FALSE)
                    /\ UNCHANGED <<activeSessionId, isImageGenAvailable, isVideoGenAvailable,
                           now, mounted, svc>>

\* fileToBase64 resolves and handleSendMessage goes on
ConvertDone(i) ==
    /\ inv[i].pc = "convert"
    /\ Sending(i, Closure(i), inv[i].messageText, TRUE)
    /\ UNCHANGED <<activeSessionId, isImageGenAvailable, isVideoGenAvailable,
                   now, mounted, svc>>

\* generateChatTitle resolves (it never rejects); the stream is requested
TitleReturn(i, title) ==
    /\ inv[i].pc = "title"
    /\ LET updated == updateSessionTitle(getChatHistory, inv[i].activeSessionId, title)
       IN  /\ store' = updated.saved
           /\ sessions' = updated.history
    /\ inv' = [inv EXCEPT ![i].pc = "stream", ![i].title = title]
    /\ UNCHANGED <<search, activeSessionId, isLoading, streamingMessage,
                   isImageGenAvailable, isVideoGenAvailable, now, mounted, svc>>

\* (a slip: the chunk is put in front)
Accumulate_InFront(fullResponse, chunk) == chunk \o fullResponse

\* fullResponse += chunk
Accumulate(fullResponse, chunk) == fullResponse \o chunk

\* generateContentStream gets a chunk: it yields the chunk's text unless it
\* is empty, and the loop of handleSendMessage adds what is yielded
StreamChunk(i, chunk) ==
    /\ inv[i].pc = "stream"
    /\ \E stream \in Streams :
          /\ Len(inv[i].chunks) < Len(stream)
          /\ SubSeq(stream, 1, Len(inv[i].chunks) + 1) = Append(inv[i].chunks, chunk)
    /\ LET fullResponse == Accumulate(inv[i].fullResponse, chunk)
       IN  /\ inv' = [inv EXCEPT ![i].chunks = Append(@, chunk),
                                 ![i].fullResponse = IF chunk # "" THEN fullResponse ELSE @]
           /\ streamingMessage' = IF chunk # ""
                                  THEN <<Message("model", fullResponse, Absent, Absent)>>
                                  ELSE streamingMessage
    /\ UNCHANGED <<store, search, sessions, activeSessionId, isLoading,
                   isImageGenAvailable, isVideoGenAvailable, now, mounted, svc>>

\* (a slip: the response is committed whatever its text)
ShouldCommit_Always(fullResponse, sessionId) == sessionId # Null

\* if (fullResponse && activeSessionId)
ShouldCommit(fullResponse, sessionId) == fullResponse # "" /\ sessionId # Null

\* the stream ends
StreamEnd(i) ==
    /\ inv[i].pc = "stream"
    /\ LET finalModelMessage == Message("model", inv[i].fullResponse, Absent, Absent)
           updatedSessions == updateMessages(inv[i].sessions, inv[i].activeSessionId,
                                  Append(inv[i].currentMessages, finalModelMessage))
       IN  IF ShouldCommit(inv[i].fullResponse, inv[i].activeSessionId)
           THEN /\ sessions' = updatedSessions
                /\ store' = saveChatHistory(updatedSessions)
                /\ inv' = [inv EXCEPT ![i] = Finished(@, <<finalModelMessage>>, "committed")]
           ELSE /\ UNCHANGED <<sessions, store>>
                /\ inv' = [inv EXCEPT ![i] = Finished(@, <<>>, "committed")]
    /\ isLoading' = FALSE
    /\ streamingMessage' = <<>>
    /\ UNCHANGED <<search, activeSessionId, isImageGenAvailable, isVideoGenAvailable,
                   now, mounted, svc>>

\* the stream request or the stream fails with a raw provider error
StreamFail(i, error) ==
    /\ inv[i].pc = "stream"
    /\ LET thrown == handleApiError(error, ChatContext)
           errorMessage == ErrorMessage(thrown)
           updatedSessions == updateMessages(inv[i].sessions, inv[i].activeSessionId,
                                  Append(inv[i].currentMessages, errorMessage))
       IN  IF inv[i].activeSessionId # Null
           THEN /\ sessions' = updatedSessions
                /\ store' = saveChatHistory(updatedSessions)
                /\ inv' = [inv EXCEPT ![i] = Finished(@, <<errorMessage>>, "failed")]
           ELSE /\ UNCHANGED <<sessions, store>>
                /\ inv' = [inv EXCEPT ![i] = Finished(@, <<>>, "failed")]
    /\ isLoading' = FALSE
    /\ streamingMessage' = <<>>
    /\ UNCHANGED <<search, activeSessionId, isImageGenAvailable, isVideoGenAvailable,
                   now, mounted, svc>>

\* ------------------------------------------------------------ image turns
handleGenerateImage(prompt) ==
    IF view.isLoading \/ view.activeSessionId = Null \/ ~view.isImageGenAvailable
       THEN UNCHANGED <<store, search, sessions, activeSessionId, isLoading,
                        streamingMessage, isImageGenAvailable, isVideoGenAvailable,
                        inv, now, mounted, svc>>
       ELSE LET userMessage == Message("user", ImageRequestText(prompt), Absent, Absent)
                currentMessages == CurrentMessages(view, userMessage)
                updatedSessions == updateMessages(view.sessions, view.activeSessionId,
                                                  currentMessages)
            IN  /\ search' = addSearchHistoryEntry(search, userMessage.text)
                /\ sessions' = updatedSessions
                /\ store' = saveChatHistory(updatedSessions)
                /\ isLoading' = TRUE
                /\ \E i \in Calls :
                     /\ FirstFree(i)
                     /\ inv' = [inv EXCEPT ![i] =
                                  [FreeCall EXCEPT !.pc = "image", !.kind = "image",
                                                   !.sessions = view.sessions,
                                                   !.activeSessionId = view.activeSessionId,
                                                   !.prompt = prompt,
                                                   !.currentMessages = currentMessages]]
                            /\ UNCHANGED <<activeSessionId, streamingMessage, isImageGenAvailable,
                               isVideoGenAvailable, now, mounted, svc>>

\* (a slip: no catch block, the error leaves the handler and only the
\* finally block runs)
EndTurn_Escapes(i, message, how) ==
    IF how = "failed"
    THEN /\ UNCHANGED <<sessions, store>>
         /\ inv' = [inv EXCEPT ![i] = Finished(@, <<>>, how)]
         /\ isLoading' = FALSE
    ELSE LET updatedSessions == updateMessages(inv[i].sessions, inv[i].activeSessionId,
                                               Append(inv[i].currentMessages, message))
         IN  /\ sessions' = updatedSessions
             /\ store' = saveChatHistory(updatedSessions)
             /\ inv' = [inv EXCEPT ![i] = Finished(@, <<message>>, how)]
             /\ isLoading' = FALSE

\* (a slip: no finally block, the flag is left set)
EndTurn_KeepsLoading(i, message, how) ==
    LET updatedSessions == updateMessages(inv[i].sessions, inv[i].activeSessionId,
                                          Append(inv[i].currentMessages, message))
    IN  /\ sessions' = updatedSessions
        /\ store' = saveChatHistory(updatedSessions)
        /\ inv' = [inv EXCEPT ![i] = Finished(@, <<message>>, how)]
        /\ isLoading' = isLoading

\* how a turn of handleGenerateImage or handleGenerateVideo ends: the message
\* is set and saved from what the call captured, and the flag is cleared
EndTurn(i, message, how) ==
    LET updatedSessions == updateMessages(inv[i].sessions, inv[i].activeSessionId,
                                          Append(inv[i].currentMessages, message))
    IN  /\ sessions' = updatedSessions
        /\ store' = saveChatHistory(updatedSessions)
        /\ inv' = [inv EXCEPT ![i] = Finished(@, <<message>>, how)]
        /\ isLoading' = FALSE

\* generateImage resolves with the image bytes
ImageReturn(i, base64Image) ==
    /\ inv[i].pc = "image"
    /\ EndTurn(i, Message("model", ImageResultText(inv[i].prompt),
                          ImageDataUrl(base64Image), Absent), "committed")
    /\ UNCHANGED <<search, activeSessionId, streamingMessage, isImageGenAvailable,
                   isVideoGenAvailable, now, mounted, svc>>

\* (a slip: the flag of the kind is set from the last failure, the other
\* flag is set again)
FlagsAfterFailure_FromLast(kind, thrown) ==
    [image |-> ~(kind = "image" /\ thrown.billing),
     video |-> ~(kind = "video" /\ thrown.billing)]

\* (a slip: a billing failure of either kind clears both flags)
FlagsAfterFailure_Both(kind, thrown) ==
    [image |-> IF thrown.billing THEN FALSE ELSE isImageGenAvailable,
     video |-> IF thrown.billing THEN FALSE ELSE isVideoGenAvailable]

\* (a slip: a billing failure does not touch the flag)
FlagsAfterFailure_Untouched(kind, thrown) ==
    [image |-> isImageGenAvailable, video |-> isVideoGenAvailable]

\* if (error instanceof BillingError) setIs<Kind>GenAvailable(false): the two
\* flags after a turn of this kind has failed with the error thrown
FlagsAfterFailure(kind, thrown) ==
    [image |-> IF kind = "image" /\ thrown.billing THEN FALSE ELSE isImageGenAvailable,
     video |-> IF kind = "video" /\ thrown.billing THEN FALSE ELSE isVideoGenAvailable]

\* generateImage rejects: the request failed with a raw error, or the
\* response held no image
ImageFail(i, error) ==
    /\ inv[i].pc = "image"
    /\ LET thrown == handleApiError(error, ImageContext)
       IN  /\ isImageGenAvailable' = FlagsAfterFailure("image", thrown).image
           /\ isVideoGenAvailable' = FlagsAfterFailure("image", thrown).video
           /\ EndTurn(i, ErrorMessage(thrown), "failed")
    /\ UNCHANGED <<search, activeSessionId, streamingMessage, now, mounted, svc>>

\* ------------------------------------------------------------ video turns
handleGenerateVideo(prompt) ==
    IF view.isLoading \/ view.activeSessionId = Null \/ ~view.isVideoGenAvailable
       THEN UNCHANGED <<store, search, sessions, activeSessionId, isLoading,
                        streamingMessage, isImageGenAvailable, isVideoGenAvailable,
                        inv, now, mounted, svc>>
       ELSE LET userMessage == Message("user", VideoRequestText(prompt), Absent, Absent)
                currentMessages == CurrentMessages(view, userMessage)
                waitingMessage == Message("model", WaitingText, Absent, Absent)
                \* updateMessages twice, the second on the same captured sessions
                updatedSessions == updateMessages(view.sessions, view.activeSessionId,
                                                  Append(currentMessages, waitingMessage))
            IN  /\ search' = addSearchHistoryEntry(search, userMessage.text)
                /\ sessions' = updatedSessions
                /\ store' = saveChatHistory(updatedSessions)
                /\ isLoading' = TRUE
                /\ \E i \in Calls :
                     /\ FirstFree(i)
                     /\ inv' = [inv EXCEPT ![i] =
                                  [FreeCall EXCEPT !.pc = "video", !.kind = "video",
                                                   !.sessions = view.sessions,
                                                   !.activeSessionId = view.activeSessionId,
                                                   !.prompt = prompt,
                                                   !.currentMessages = currentMessages]]
                            /\ UNCHANGED <<activeSessionId, streamingMessage, isImageGenAvailable,
                               isVideoGenAvailable, now, mounted, svc>>

\* generateVideo resolves with the url of the finished operation
VideoReturn(i, downloadLink) ==
    /\ inv[i].pc = "video"
    /\ EndTurn(i, Message("model", VideoResultText(inv[i].prompt), Absent,
                          VideoUrl(downloadLink)), "committed")
    /\ UNCHANGED <<search, activeSessionId, streamingMessage, isImageGenAvailable,
                   isVideoGenAvailable, now, mounted, svc>>

\* generateVideo rejects: the request or a poll failed with a raw error, or
\* the finished operation held no uri
VideoFail(i, error) ==
    /\ inv[i].pc = "video"
    /\ LET thrown == handleApiError(error, VideoContext)
       IN  /\ isImageGenAvailable' = FlagsAfterFailure("video", thrown).image
           /\ isVideoGenAvailable' = FlagsAfterFailure("video", thrown).video
           /\ EndTurn(i, ErrorMessage(thrown), "failed")
    /\ UNCHANGED <<search, activeSessionId, streamingMessage, now, mounted, svc>>

\* ------------------------------------------------------------------ system
SessionIds == {toISOString(t) : t \in 0..MaxCreates}

Next ==
    \/ Mount
    \/ Tick
    \/ handleNewSession
    \/ \E id \in SessionIds : handleDeleteSession(id)
    \/ handleClearAllHistory
    \/ \E id \in SessionIds : onSelectSession(id)
    \/ \E send \in Sends : handleSendMessage(send[1], send[2])
    \/ \E i \in Calls : ConvertDone(i)
    \/ \E i \in Calls, title \in Titles : TitleReturn(i, title)
    \/ \E i \in Calls, chunk \in Chunks : StreamChunk(i, chunk)
    \/ \E i \in Calls : StreamEnd(i)
    \/ \E i \in Calls, error \in RawErrors : StreamFail(i, error)
    \/ \E prompt \in Prompts : handleGenerateImage(prompt)
    \/ \E i \in Calls : ImageReturn(i, "BYTES")
    \/ \E i \in Calls, error \in RawErrors \cup {NoImageError} : ImageFail(i, error)
    \/ \E prompt \in Prompts : handleGenerateVideo(prompt)
    \/ \E i \in Calls : VideoReturn(i, "https://video/uri")
    \/ \E i \in Calls, error \in RawErrors \cup {NoVideoError} : VideoFail(i, error)

Spec == Init /\ [][Next]_vars

\* Every promise a handler awaits is settled in the end: the conversion of
\* the file, the title request (which never rejects), the stream (it ends
\* or fails), the image request, and the video operation (it is reported
\* done, or a status check fails).  The event loop then runs the handler's
\* continuation: the step of call i that what it awaits allows.
Settle(i) ==
    \/ ConvertDone(i)
    \/ \E title \in Titles : TitleReturn(i, title)
    \/ StreamEnd(i)
    \/ \E error \in RawErrors : StreamFail(i, error)
    \/ ImageReturn(i, "BYTES")
    \/ \E error \in RawErrors \cup {NoImageError} : ImageFail(i, error)
    \/ VideoReturn(i, "https://video/uri")
    \/ \E error \in RawErrors \cup {NoVideoError} : VideoFail(i, error)

LiveSpec == Init /\ [][Next]_vars /\ \A i \in Calls : WF_vars(Settle(i))

\* ------------------------------------------------------------------ claims
\* a turn is in progress: a handler call has been accepted and has not returned
TurnInProgress == \E i \in Calls : InFlight(i)

\* a step in which a turn is requested
TurnRequest ==
    \/ \E send \in Sends : handleSendMessage(send[1], send[2])
    \/ \E prompt \in Prompts : handleGenerateImage(prompt)
    \/ \E prompt \in Prompts : handleGenerateVideo(prompt)

\* a step in which a request goes out to the provider
ProviderContacted ==
    \E i \in Calls : /\ inv'[i].pc \in {"title", "stream", "image", "video"}
                     /\ inv'[i].pc # inv[i].pc

\* C1: at most one turn is in progress for a session at any time, whatever
\* the interleaving of send-message, generate-image and generate-video
\* requests.
C1_AtMostOneTurnPerSession ==
    \A i, j \in Calls :
        (/\ InFlight(i)
         /\ InFlight(j)
         /\ inv[i].activeSessionId = inv[j].activeSessionId) => i = j

\* C2: a turn requested while a turn is in progress or while no session is
\* active changes neither the saved sessions, nor a transcript, nor the
\* search history, nor a feature flag, nor the in-flight message, and no
\* request goes out to the provider.
C2_RejectedRequestIsNoOp ==
    [][(TurnRequest /\ (TurnInProgress \/ activeSessionId = Null))
          => /\ UNCHANGED <<store, sessions, search, isImageGenAvailable,
                            isVideoGenAvailable, streamingMessage>>
             /\ ~ProviderContacted]_vars

Done == {"committed", "failed"}

\* call i returns in this step
Returns(i) == InFlight(i) /\ inv'[i].pc \in Done

\* a step of a turn
TurnStep == inv' # inv

IsPrefix(a, b) == Len(a) <= Len(b) /\ SubSeq(b, 1, Len(a)) = a

\* the session the call was made in was in the collection the call captured
Captured(i) == FindIndex(inv[i].sessions, inv[i].activeSessionId) # 0

\* the messages as JSON keeps them
Saved(messages) == [j \in 1..Len(messages) |-> JSONMessage(messages[j])]

\* in the saved collection c the session(s) with this id hold exactly these
\* messages, and there is one if `must`
HoldsTranscript(c, id, messages, must) ==
    /\ \A k \in 1..Len(c) : c[k].id = id => c[k].messages = Saved(messages)
    /\ must => \E k \in 1..Len(c) : c[k].id = id

\* C3: transcripts are append-only: whatever a turn saves for a session has
\* what was saved for it before as a prefix.
C3_TranscriptsAppendOnly ==
    [][TurnStep =>
         \A k \in 1..Len(store), k2 \in 1..Len(store') :
            store[k].id = store'[k2].id
               => IsPrefix(store[k].messages, store'[k2].messages)]_vars

WaitingMessage == Message("model", WaitingText, Absent, Absent)

C5_TitleSurvivesTurn ==
    [][\A i \in Calls :
          (inv[i].pc = "stream" /\ Returns(i) /\ inv[i].title # Null)
             => /\ \A k \in 1..Len(store') :
                      store'[k].id = inv[i].activeSessionId => store'[k].title = inv[i].title
                /\ \A k \in 1..Len(sessions') :
                      sessions'[k].id = inv[i].activeSessionId
                         => sessions'[k].title = inv[i].title]_vars

\* C6: title generation does not block the turn: while the title request
\* is pending, the stream has been requested and a fragment can be consumed.
C6_StreamWhileTitlePending ==
    \A i \in Calls :
        inv[i].pc = "title" => ENABLED (\E chunk \in Chunks : StreamChunk(i, chunk))

\* the ids of a collection, in order
IdList(c) == [k \in 1..Len(c) |-> c[k].id]

\* C7: the end of a turn writes on top of the current collection: the
\* sessions created during the turn are still saved, the deleted ones are
\* still absent, and after a clear-all there is only the one new session.
C7_CommitKeepsCollection ==
    [][(\E i \in Calls : Returns(i)) => IdList(store') = IdList(store)]_vars

\* C8: when the active session was switched during a turn, the turn's
\* outcome message ends the transcript of the session the turn started in,
\* and the transcript of the session that is active now is as it was.
C8_OutcomeGoesToStartingSession ==
    [][\A i \in Calls :
          (Returns(i) /\ activeSessionId # inv[i].activeSessionId)
             => /\ (Captured(i) /\ inv'[i].outcome # <<>>)
                      => \E k \in 1..Len(store') :
                            /\ store'[k].id = inv[i].activeSessionId
                            /\ store'[k].messages # <<>>
                            /\ store'[k].messages[Len(store'[k].messages)]
                                  = inv'[i].outcome[1]
                /\ \A k \in 1..Len(store) :
                      store[k].id = activeSessionId
                         => \E k2 \in 1..Len(store') :
                               /\ store'[k2].id = activeSessionId
                               /\ store'[k2].messages = store[k].messages
                /\ \A k \in 1..Len(sessions) :
                      sessions[k].id = activeSessionId
                         => \E k2 \in 1..Len(sessions') :
                               /\ sessions'[k2].id = activeSessionId
                               /\ sessions'[k2].messages = sessions[k].messages]_vars

\* the chunks that are fragments: generateContentStream yields no fragment
\* for an empty chunk
Fragments(chunks) ==
    LET nonEmpty(chunk) == chunk # ""
    IN  SelectSeq(chunks, nonEmpty)

\* the texts of a sequence, one after the other
RECURSIVE Concat(_)
Concat(texts) == IF texts = <<>> THEN "" ELSE Head(texts) \o Concat(Tail(texts))

ChatErrorTexts == {ErrorPrefix \o handleApiError(error, ChatContext).message : error \in RawErrors}

ProviderFails(i) ==
    \/ \E error \in RawErrors : StreamFail(i, error)
    \/ \E error \in RawErrors \cup {NoImageError} : ImageFail(i, error)
    \/ \E error \in RawErrors \cup {NoVideoError} : VideoFail(i, error)

\* the context of the provider call of a kind of turn
ContextOf(kind) ==
    CASE kind = "chat" -> ChatContext
      [] kind = "image" -> ImageContext
      [] kind = "video" -> VideoContext

C13_FlagsOneWay ==
    /\ isImageGenAvailable = TRUE
    /\ isVideoGenAvailable = TRUE
    /\ [][/\ ~isImageGenAvailable => ~isImageGenAvailable'
          /\ ~isVideoGenAvailable => ~isVideoGenAvailable']_vars

\* the image flag went false in the first turn and is still false after a
\* second turn has ended
C13_Witness ==
    /\ ~isImageGenAvailable
    /\ inv[1].pc = "failed" /\ inv[1].kind = "image"
    /\ inv[2].pc \in Done

\* a step in which an image (video) turn fails with a billing error
ImageBillingFailure ==
    \E i \in Calls, error \in RawErrors :
        handleApiError(error, ImageContext).billing /\ ImageFail(i, error)
VideoBillingFailure ==
    \E i \in Calls, error \in RawErrors :
        handleApiError(error, VideoContext).billing /\ VideoFail(i, error)

\* C14: an image turn that fails with a billing error sets the image flag to
\* false, and an image request made while the flag is false contacts no
\* provider and changes no transcript, no saved collection and no search
\* history (with C13: every later image request); the same for video.
C14_BillingFailureDisablesFeature ==
    [][/\ ImageBillingFailure => ~isImageGenAvailable'
       /\ VideoBillingFailure => ~isVideoGenAvailable'
       /\ (~isImageGenAvailable /\ \E prompt \in Prompts : handleGenerateImage(prompt))
             => UNCHANGED vars
       /\ (~isVideoGenAvailable /\ \E prompt \in Prompts : handleGenerateVideo(prompt))
             => UNCHANGED vars]_vars

\* the image flag is false after a billing failure, and nothing else stands
\* in the way of an image request: a session is active, no turn is loading
C14_Witness ==
    /\ ~isImageGenAvailable
    /\ \E i \in Calls :
          /\ inv[i].pc = "failed"
          /\ inv[i].kind = "image"
          /\ inv[i].outcome[1].text = ErrorPrefix \o BillingText("geracao de imagens")
    /\ ~isLoading
    /\ activeSessionId # Null
    /\ \E i \in Calls : inv[i].pc = "free"

\* the sessions of a collection other than those with this id, in order
Remaining(c, id) ==
    LET other(s) == s.id # id
    IN  SelectSeq(c, other)

\* C15: deleting the active session makes the head of the remaining sessions
\* the active one and leaves exactly the remaining sessions in memory and in
\* storage; when none remains, one new session with an empty transcript is
\* the only session in memory and in storage, and it is the active one.
C15_DeleteActiveSession ==
    [][\A id \in SessionIds :
          (handleDeleteSession(id) /\ id = activeSessionId)
             => LET remaining == Remaining(sessions, id)
                IN  IF remaining # <<>>
                    THEN /\ activeSessionId' = remaining[1].id
                         /\ IdList(sessions') = IdList(remaining)
                         /\ IdList(store') = IdList(remaining)
                         /\ \A k \in 1..Len(remaining) :
                               /\ store'[k].messages = Saved(remaining[k].messages)
                               /\ sessions'[k].messages = Saved(remaining[k].messages)
                    ELSE /\ Len(sessions') = 1
                         /\ Len(store') = 1
                         /\ sessions'[1].messages = <<>>
                         /\ store'[1] = sessions'[1]
                         /\ activeSessionId' = sessions'[1].id]_vars

\* of two sessions the one made later, in which a turn has ended, is gone,
\* and the session that remains is the active one
C15_Witness ==
    /\ Len(store) = 1
    /\ IdList(sessions) = IdList(store)
    /\ activeSessionId = store[1].id
    /\ activeSessionId = toISOString(1)
    /\ \E i \in Calls : /\ inv[i].pc \in Done
                          /\ inv[i].activeSessionId = toISOString(2)
                          /\ Len(inv[i].outcome) = 1

\* C16: clearing all history leaves exactly one session in memory and in
\* storage, with an empty transcript and the default title, and it is the
\* active session.
C16_ClearAllLeavesOneSession ==
    [][handleClearAllHistory
          => /\ Len(sessions') = 1
             /\ Len(store') = 1
             /\ sessions'[1].messages = <<>>
             /\ sessions'[1].title = DefaultTitle
             /\ store'[1] = sessions'[1]
             /\ activeSessionId' = sessions'[1].id]_vars

\* a turn has ended in a session with a saved outcome, and now one empty
\* session with the default title is all there is, and it is active
C16_Witness ==
    /\ Len(store) = 1
    /\ sessions = store
    /\ store[1] = ChatSession(activeSessionId, DefaultTitle, <<>>)
    /\ \E i \in Calls : inv[i].pc \in Done /\ Len(inv[i].outcome) = 1
    /\ \A i \in Calls : ~InFlight(i)

\* C17: createNewSession makes a session whose id no saved session has, with
\* the default title and no messages, at the head of the saved collection;
\* so no two sessions of the saved or of the in-memory collection ever
\* share an id.
C17_SessionIdsUnique ==
    /\ \A k, k2 \in 1..Len(store) : store[k].id = store[k2].id => k = k2
    /\ \A k, k2 \in 1..Len(sessions) : sessions[k].id = sessions[k2].id => k = k2

\* ------------------------------------------- the chat history service alone
\* the messages the handlers of App make
ValidMessages ==
    {Message("user", "q", Undefined, Absent),
     Message("user", DefaultImagePrompt, BlobUrl, Absent),
     Message("model", VideoResultText("p"), Absent, VideoUrl("https://video/uri"))}

\* the longest transcript and the longest collection of the service's check
MaxMessages == 2
MaxSessions == 2

ValidTranscripts ==
    UNION {[1..n -> ValidMessages] : n \in 0..MaxMessages}

ValidSessions ==
    {ChatSession(id, title, messages) :
        id \in {toISOString(t) : t \in 1..MaxSessions},
        title \in {DefaultTitle} \cup Titles,
        messages \in ValidTranscripts}

\* the collections of sessions with different ids
ValidCollections ==
    {c \in UNION {[1..n -> ValidSessions] : n \in 0..MaxSessions} :
        \A k, k2 \in 1..Len(c) : c[k].id = c[k2].id => k = k2}

StoreInit ==
    /\ store = <<>>
    /\ search = <<>>
    /\ sessions = <<>>
    /\ activeSessionId = Null
    /\ isLoading = FALSE
    /\ streamingMessage = <<>>
    /\ isImageGenAvailable = TRUE
    /\ isVideoGenAvailable = TRUE
    /\ inv = [i \in Calls |-> FreeCall]
    /\ now = 1
    /\ mounted = FALSE
    /\ svc = NoCall

\* a caller holds the collection S and calls saveChatHistory(S)
StoreSaveAll(S) ==
    /\ sessions' = S
    /\ store' = saveChatHistory(S)
    /\ UNCHANGED <<search, activeSessionId, isLoading, streamingMessage,
                   isImageGenAvailable, isVideoGenAvailable, inv, now, mounted, svc>>

\* a caller calls saveChatHistory(getChatHistory()) and keeps what it loaded
StoreReload ==
    /\ sessions' = getChatHistory
    /\ store' = saveChatHistory(getChatHistory)
    /\ UNCHANGED <<search, activeSessionId, isLoading, streamingMessage,
                   isImageGenAvailable, isVideoGenAvailable, inv, now, mounted, svc>>

StoreNext ==
    \/ \E S \in ValidCollections : StoreSaveAll(S)
    \/ StoreReload

StoreSpec == StoreInit /\ [][StoreNext]_vars

\* what reading an optional field gives: undefined when the key is missing
ReadField(value) == IF value = Absent THEN Undefined ELSE value

SameMessage(a, b) ==
    /\ a.sender = b.sender
    /\ a.text = b.text
    /\ ReadField(a.imageUrl) = ReadField(b.imageUrl)
    /\ ReadField(a.videoUrl) = ReadField(b.videoUrl)

\* the same sessions in the same order with the same messages
SameCollection(a, b) ==
    /\ Len(a) = Len(b)
    /\ \A k \in 1..Len(a) :
          /\ a[k].id = b[k].id
          /\ a[k].title = b[k].title
          /\ Len(a[k].messages) = Len(b[k].messages)
          /\ \A j \in 1..Len(a[k].messages) :
                SameMessage(a[k].messages[j], b[k].messages[j])

SearchQueries == {"Cat", "cat", "Q", "q", "DOG", "dog", ToString(MAX_HISTORY_SIZE)}

\* a history with MAX_HISTORY_SIZE entries, the newest first
FullHistory == [k \in 1..MAX_HISTORY_SIZE |-> ToString(k)]

SearchInit ==
    /\ search \in {<<>>, FullHistory}
    /\ store = <<>>
    /\ sessions = <<>>
    /\ activeSessionId = Null
    /\ isLoading = FALSE
    /\ streamingMessage = <<>>
    /\ isImageGenAvailable = TRUE
    /\ isVideoGenAvailable = TRUE
    /\ inv = [i \in Calls |-> FreeCall]
    /\ now = 1
    /\ mounted = FALSE
    /\ svc = NoCall

SearchAdd(query) ==
    /\ search' = addSearchHistoryEntry(search, query)
    /\ UNCHANGED <<store, sessions, activeSessionId, isLoading, streamingMessage,
                   isImageGenAvailable, isVideoGenAvailable, inv, now, mounted, svc>>

SearchDelete(query) ==
    /\ search' = deleteSearchHistoryEntry(search, query)
    /\ UNCHANGED <<store, sessions, activeSessionId, isLoading, streamingMessage,
                   isImageGenAvailable, isVideoGenAvailable, inv, now, mounted, svc>>

SearchClear ==
    /\ search' = clearSearchHistory
    /\ UNCHANGED <<store, sessions, activeSessionId, isLoading, streamingMessage,
                   isImageGenAvailable, isVideoGenAvailable, inv, now, mounted, svc>>

SearchNext ==
    \/ \E query \in SearchQueries \cup {""} : SearchAdd(query)
    \/ \E query \in SearchQueries : SearchDelete(query)
    \/ SearchClear

SearchSpec == SearchInit /\ [][SearchNext]_vars

\* the two texts are equal when case is ignored
SameIgnoringCase(a, b) == toLowerCase(a) = toLowerCase(b)

\* the entries of a history that differ from the query when case is ignored
Others(history, query) ==
    LET differs(item) == ~SameIgnoringCase(item, query)
    IN  SelectSeq(history, differs)

\* C19: adding a non-empty query puts it, spelled as given, at the front,
\* removes every entry equal to it ignoring case, and leaves the other
\* entries behind it in the order they had; so no two entries of the
\* history are ever equal ignoring case.
C19_AddMovesToFront ==
    /\ [](\A k, k2 \in 1..Len(search) :
             SameIgnoringCase(search[k], search[k2]) => k = k2)
    /\ [][\A query \in SearchQueries :
             SearchAdd(query)
                => /\ search' # <<>>
                   /\ search'[1] = query
                   /\ \A k \in 2..Len(search') : ~SameIgnoringCase(search'[k], query)
                   /\ IsPrefix(Tail(search'), Others(search, query))
                   /\ Len(Others(search, query)) < MAX_HISTORY_SIZE
                         => Tail(search') = Others(search, query)]_vars

\* "cat" is at the front of a history that holds another entry, and "Cat"
\* is not in it
C19_Witness ==
    /\ Len(search) = 2
    /\ search[1] = "cat"
    /\ search[2] = "Q"

\* C20: the history never holds more than MAX_HISTORY_SIZE entries, and
\* adding a query that is not in a full history drops exactly its last
\* entry and keeps the others, in order, behind the new one.
C20_HistoryCapped ==
    /\ [](Len(search) <= MAX_HISTORY_SIZE)
    /\ [][\A query \in SearchQueries :
             (/\ SearchAdd(query)
              /\ Len(search) = MAX_HISTORY_SIZE
              /\ Others(search, query) = search)
                => search' = <<query>> \o SubSeq(search, 1, MAX_HISTORY_SIZE - 1)]_vars

\* a full history whose newest entry is "Cat": the oldest entry of the full
\* history it was added to is gone
C20_Witness ==
    /\ Len(search) = MAX_HISTORY_SIZE
    /\ search[1] = "Cat"
    /\ search[MAX_HISTORY_SIZE] = ToString(MAX_HISTORY_SIZE - 1)

\* ------------------------------------------- the generation service alone
\* A text of the provider is a sequence of pieces, and the text is the
\* pieces one after the other: a word the title pattern matches, a colon,
\* a blank, a quote or markdown character, or a run of other characters
\* that neither starts nor ends with one of these.
TitleWords == {"Title", "titulo"}
WhiteSpace == {" "}
QuoteMarks == {"\"", "'", "*", "#"}
TitlePieces == TitleWords \cup {":", " ", "\"", "*", "Trip to Japan"}

\* the longest text of a title response, in pieces
MaxPieces == 4

TitleTexts == UNION {[1..n -> TitlePieces] : n \in 0..MaxPieces}

\* the languages of the application
Languages == {"pt-BR", "en-US"}

\* how many pieces at the start (at the end) of a text are of a class
LeadingRun(text, class) ==
    CHOOSE n \in 0..Len(text) :
        /\ \A k \in 1..n : text[k] \in class
        /\ n < Len(text) => text[n + 1] \notin class

TrailingRun(text, class) ==
    CHOOSE n \in 0..Len(text) :
        /\ \A k \in (Len(text) - n + 1)..Len(text) : text[k] \in class
        /\ n < Len(text) => text[Len(text) - n] \notin class

\* the text without the pieces of a class at its start and at its end
Strip(text, class) ==
    IF LeadingRun(text, class) = Len(text) THEN <<>>
    ELSE SubSeq(text, LeadingRun(text, class) + 1, Len(text) - TrailingRun(text, class))

\* response.text.trim()
trim(text) == Strip(text, WhiteSpace)

\* (a slip: the prefix is left in the title)
ReplaceTitlePrefix_Kept(title) == title

\* title.replace(/^(titulo|title):?\s*/i, '')
ReplaceTitlePrefix(title) ==
    IF title # <<>> /\ title[1] \in TitleWords
    THEN LET afterWord == Tail(title)
             afterColon == IF afterWord # <<>> /\ afterWord[1] = ":"
                           THEN Tail(afterWord) ELSE afterWord
         IN  SubSeq(afterColon, LeadingRun(afterColon, WhiteSpace) + 1, Len(afterColon))
    ELSE title

\* title.replace(/^["'*#\s]+|["'*#\s]+$/g, '')
ReplaceSurrounding(title) == Strip(title, QuoteMarks \cup WhiteSpace)

\* what the title request came back with
TitleReplies ==
    {[ok |-> TRUE, text |-> text] : text \in TitleTexts}
        \cup {[ok |-> FALSE, text |-> <<>>]}

\* (a slip: the catch block throws the error again)
generateChatTitle_Rethrows(reply, lang) ==
    IF reply.ok
    THEN LET title == ReplaceSurrounding(ReplaceTitlePrefix(trim(reply.text)))
         IN  [pc |-> "returned", title |-> title,
              result |-> IF Concat(title) # "" THEN Concat(title) ELSE FallbackTitle(lang)]
    ELSE [pc |-> "thrown", title |-> <<>>, result |-> Null]

\* generateChatTitle(firstMessage, language), from the reply to its request:
\* the cleaned title and what is returned
generateChatTitle(reply, lang) ==
    IF reply.ok
    THEN LET title == ReplaceSurrounding(ReplaceTitlePrefix(trim(reply.text)))
         IN  [pc |-> "returned", title |-> title,
              result |-> IF Concat(title) # "" THEN Concat(title) ELSE FallbackTitle(lang)]
    ELSE [pc |-> "returned", title |-> <<>>, result |-> FallbackTitle(lang)]

\* generateChatTitle is called
TitleCall(lang) ==
    /\ svc = NoCall
    /\ svc' = [fn |-> "generateChatTitle", pc |-> "await", language |-> lang]
    /\ UNCHANGED <<store, search, sessions, activeSessionId, isLoading, streamingMessage,
                   isImageGenAvailable, isVideoGenAvailable, inv, now, mounted>>

\* its request is answered or fails
TitleReply(reply) ==
    /\ svc.fn = "generateChatTitle"
    /\ svc.pc = "await"
    /\ LET done == generateChatTitle(reply, svc.language)
       IN  svc' = [fn |-> "generateChatTitle", pc |-> done.pc, language |-> svc.language,
                   reply |-> reply, title |-> done.title, result |-> done.result]
    /\ UNCHANGED <<store, search, sessions, activeSessionId, isLoading, streamingMessage,
                   isImageGenAvailable, isVideoGenAvailable, inv, now, mounted>>

\* the raw errors the classifier is given: an object with a nested message,
\* with a message, with both or with none, a string, and anything else
MessagesOfErrors == {NoMessage} \cup {HasMessage(patterns) : patterns \in SUBSET ErrorPatterns}
RawShapes ==
    {[type |-> "object", nested |-> nested, message |-> message, text |-> {}] :
        nested \in {NoMessage, HasMessage({}), HasMessage({"quota"})},
        message \in MessagesOfErrors}
      \cup {[type |-> "string", nested |-> NoMessage, message |-> NoMessage, text |-> text] :
                text \in SUBSET ErrorPatterns}
      \cup {[type |-> "other", nested |-> NoMessage, message |-> NoMessage, text |-> {}]}

Contexts == {ChatContext, ImageContext, VideoContext}

\* handleApiError is called with a raw error and returns the error to throw
Classify(raw, context) ==
    /\ svc = NoCall
    /\ svc' = [fn |-> "handleApiError", pc |-> "returned", error |-> raw,
               context |-> context,
               thrown |-> handleApiError(ErrorMessageOf(raw), context)]
    /\ UNCHANGED <<store, search, sessions, activeSessionId, isLoading, streamingMessage,
                   isImageGenAvailable, isVideoGenAvailable, inv, now, mounted>>

\* an operation as the provider reports it: done or not, and the uri of
\* the video when it holds one
Operation(done, uri) == [done |-> done, uri |-> uri]
Operations ==
    {Operation(FALSE, Absent), Operation(TRUE, "https://video/uri"), Operation(TRUE, Absent)}

\* the status checks one call of generateVideo makes at most
MaxPolls == 3

\* generateVideo is called and asks the provider for the video
GenVideoCall ==
    /\ svc = NoCall
    /\ svc' = [fn |-> "generateVideo", pc |-> "request", reports |-> <<>>,
               waits |-> 0, polls |-> 0, result |-> Null, thrown |-> Null]
    /\ UNCHANGED <<store, search, sessions, activeSessionId, isLoading, streamingMessage,
                   isImageGenAvailable, isVideoGenAvailable, inv, now, mounted>>

\* (a slip: the loop gives up after the first status check)
AfterReport_OnePoll(call, operation) ==
    LET reported == [call EXCEPT !.reports = Append(@, operation),
                                 !.polls = IF call.pc = "poll" THEN @ + 1 ELSE @]
    IN  IF ~operation.done /\ call.pc = "request"
        THEN [reported EXCEPT !.pc = "wait"]
        ELSE IF operation.uri # Absent
        THEN [reported EXCEPT !.pc = "returned", !.result = VideoUrl(operation.uri)]
        ELSE [reported EXCEPT !.pc = "thrown",
                              !.thrown = handleApiError(NoVideoError, VideoContext).message]

\* (a slip: the download link is returned as it is)
AfterReport_BareLink(call, operation) ==
    LET reported == [call EXCEPT !.reports = Append(@, operation),
                                 !.polls = IF call.pc = "poll" THEN @ + 1 ELSE @]
    IN  IF ~operation.done
        THEN [reported EXCEPT !.pc = "wait"]
        ELSE IF operation.uri # Absent
        THEN [reported EXCEPT !.pc = "returned", !.result = operation.uri]
        ELSE [reported EXCEPT !.pc = "thrown",
                              !.thrown = handleApiError(NoVideoError, VideoContext).message]

\* generateVideo once the provider has reported the operation: while
\* (!operation.done) it waits and checks again; a finished operation gives
\* the url, or the error thrown when it holds no uri
AfterReport(call, operation) ==
    LET reported == [call EXCEPT !.reports = Append(@, operation),
                                 !.polls = IF call.pc = "poll" THEN @ + 1 ELSE @]
    IN  IF ~operation.done
        THEN [reported EXCEPT !.pc = "wait"]
        ELSE IF operation.uri # Absent
        THEN [reported EXCEPT !.pc = "returned", !.result = VideoUrl(operation.uri)]
        ELSE [reported EXCEPT !.pc = "thrown",
                              !.thrown = handleApiError(NoVideoError, VideoContext).message]

\* generateVideos or getVideosOperation resolves with the operation
GenVideoReport(operation) ==
    /\ svc.fn = "generateVideo"
    /\ svc.pc \in {"request", "poll"}
    /\ svc' = AfterReport(svc, operation)
    /\ UNCHANGED <<store, search, sessions, activeSessionId, isLoading, streamingMessage,
                   isImageGenAvailable, isVideoGenAvailable, inv, now, mounted>>

\* the 10 seconds of the wait are over and the status is asked for
GenVideoWaited ==
    /\ svc.fn = "generateVideo"
    /\ svc.pc = "wait"
    /\ svc.polls < MaxPolls
    /\ svc' = [svc EXCEPT !.pc = "poll", !.waits = @ + 1]
    /\ UNCHANGED <<store, search, sessions, activeSessionId, isLoading, streamingMessage,
                   isImageGenAvailable, isVideoGenAvailable, inv, now, mounted>>

\* generateVideos or getVideosOperation rejects with a raw error
GenVideoReject(raw) ==
    /\ svc.fn = "generateVideo"
    /\ svc.pc \in {"request", "poll"}
    /\ svc' = [svc EXCEPT !.pc = "thrown",
                          !.polls = IF svc.pc = "poll" THEN @ + 1 ELSE @,
                          !.thrown = handleApiError(ErrorMessageOf(raw), VideoContext).message]
    /\ UNCHANGED <<store, search, sessions, activeSessionId, isLoading, streamingMessage,
                   isImageGenAvailable, isVideoGenAvailable, inv, now, mounted>>

\* the chunks one stream of the service's check has at most
MaxChunks == 3

\* generateContentStream is called and asks the provider for the stream
GenStreamCall ==
    /\ svc = NoCall
    /\ svc' = [fn |-> "generateContentStream", pc |-> "request", chunks |-> <<>>,
               yielded |-> <<>>, thrown |-> Null]
    /\ UNCHANGED <<store, search, sessions, activeSessionId, isLoading, streamingMessage,
                   isImageGenAvailable, isVideoGenAvailable, inv, now, mounted>>

\* the request resolves with the stream
GenStreamOpen ==
    /\ svc.fn = "generateContentStream"
    /\ svc.pc = "request"
    /\ svc' = [svc EXCEPT !.pc = "iterate"]
    /\ UNCHANGED <<store, search, sessions, activeSessionId, isLoading, streamingMessage,
                   isImageGenAvailable, isVideoGenAvailable, inv, now, mounted>>

\* (a slip: every chunk is yielded)
Yield_EveryChunk(yielded, chunk) == Append(yielded, chunk)

\* if (chunk.text) yield chunk.text: what has been yielded after this chunk
Yield(yielded, chunk) == IF chunk # "" THEN Append(yielded, chunk) ELSE yielded

\* the stream gives its next chunk
GenStreamChunk(chunk) ==
    /\ svc.fn = "generateContentStream"
    /\ svc.pc = "iterate"
    /\ Len(svc.chunks) < MaxChunks
    /\ svc' = [svc EXCEPT !.chunks = Append(@, chunk), !.yielded = Yield(@, chunk)]
    /\ UNCHANGED <<store, search, sessions, activeSessionId, isLoading, streamingMessage,
                   isImageGenAvailable, isVideoGenAvailable, inv, now, mounted>>

\* the stream ends
GenStreamEnd ==
    /\ svc.fn = "generateContentStream"
    /\ svc.pc = "iterate"
    /\ svc' = [svc EXCEPT !.pc = "returned"]
    /\ UNCHANGED <<store, search, sessions, activeSessionId, isLoading, streamingMessage,
                   isImageGenAvailable, isVideoGenAvailable, inv, now, mounted>>

\* the request or the stream fails with a raw error
GenStreamReject(raw) ==
    /\ svc.fn = "generateContentStream"
    /\ svc.pc \in {"request", "iterate"}
    /\ svc' = [svc EXCEPT !.pc = "thrown",
                          !.thrown = handleApiError(ErrorMessageOf(raw), ChatContext).message]
    /\ UNCHANGED <<store, search, sessions, activeSessionId, isLoading, streamingMessage,
                   isImageGenAvailable, isVideoGenAvailable, inv, now, mounted>>

\* the raw errors a provider call of the service's check fails with
ProviderErrors ==
    {raw \in RawShapes : ~raw.nested.has /\ raw.type = "object"
                           /\ raw.message \in {NoMessage, HasMessage({"billed users", "quota"}),
                                               HasMessage({"quota"})}}

GenInit ==
    /\ store = <<>>
    /\ search = <<>>
    /\ sessions = <<>>
    /\ activeSessionId = Null
    /\ isLoading = FALSE
    /\ streamingMessage = <<>>
    /\ isImageGenAvailable = TRUE
    /\ isVideoGenAvailable = TRUE
    /\ inv = [i \in Calls |-> FreeCall]
    /\ now = 1
    /\ mounted = FALSE
    /\ svc = NoCall

GenNext ==
    \/ \E lang \in Languages : TitleCall(lang)
    \/ \E reply \in TitleReplies : TitleReply(reply)
    \/ \E raw \in RawShapes, context \in Contexts : Classify(raw, context)
    \/ GenVideoCall
    \/ \E operation \in Operations : GenVideoReport(operation)
    \/ GenVideoWaited
    \/ \E raw \in ProviderErrors : GenVideoReject(raw)
    \/ GenStreamCall
    \/ GenStreamOpen
    \/ \E chunk \in Chunks : GenStreamChunk(chunk)
    \/ GenStreamEnd
    \/ \E raw \in ProviderErrors : GenStreamReject(raw)

GenSpec == GenInit /\ [][GenNext]_vars

\* a call of generateChatTitle that is over
TitleOver == svc.fn = "generateChatTitle" /\ svc.pc # "await"

\* where the text starts once the blanks at its start and a title word with
\* its colon are passed
AfterPrefix(text) ==
    LET first == LeadingRun(text, WhiteSpace) + 1
    IN  IF first <= Len(text) /\ text[first] \in TitleWords
        THEN IF first < Len(text) /\ text[first + 1] = ":" THEN first + 2 ELSE first + 1
        ELSE first

\* title is what is left of the text behind its prefix when the quote and
\* markdown characters and the blanks around it are taken away
IsCleaned(title, text) ==
    LET surrounding == QuoteMarks \cup WhiteSpace
    IN  \E from \in AfterPrefix(text)..(Len(text) + 1), to \in 0..Len(text) :
           /\ \A k \in AfterPrefix(text)..(from - 1) : text[k] \in surrounding
           /\ \A k \in (to + 1)..Len(text) : text[k] \in surrounding
           /\ title = IF from > to THEN <<>> ELSE SubSeq(text, from, to)
           /\ title # <<>> => /\ title[1] \notin surrounding
                              /\ title[Len(title)] \notin surrounding

\* C21: generateChatTitle never throws.  When its request fails, or when
\* nothing is left of the response once a title word with its colon at the
\* start and the quote and markdown characters and blanks around the text
\* are taken away, it returns the fallback title of the language; otherwise
\* it returns what is left (for "Title: Trip to Japan", "Trip to Japan").
C21_TitleNeverFails ==
    TitleOver =>
        /\ svc.pc = "returned"
        /\ ~svc.reply.ok => svc.result = FallbackTitle(svc.language)
        /\ svc.reply.ok =>
              /\ IsCleaned(svc.title, svc.reply.text)
              /\ svc.result = IF svc.title = <<>> THEN FallbackTitle(svc.language)
                              ELSE Concat(svc.title)
        /\ svc.result \in {"Novo Chat", "New Chat"}
              <=> (~svc.reply.ok \/ svc.title = <<>>)
        /\ svc.reply = [ok |-> TRUE, text |-> <<"Title", ":", " ", "Trip to Japan">>]
              => svc.result = "Trip to Japan"

\* the response "Title: Trip to Japan" has given the title "Trip to Japan"
C21_Witness ==
    /\ TitleOver
    /\ svc.reply = [ok |-> TRUE, text |-> <<"Title", ":", " ", "Trip to Japan">>]
    /\ svc.result = "Trip to Japan"

\* the class of a classified error: the kind of error it is and its text
ClassOf(thrown, context) ==
    {class \in {"BillingUnavailable", "InvalidCredential", "QuotaExceeded", "Unknown"} :
        \/ class = "BillingUnavailable" /\ thrown.billing
        \/ class = "InvalidCredential" /\ ~thrown.billing /\ thrown.message = InvalidKeyText
        \/ class = "QuotaExceeded" /\ ~thrown.billing /\ thrown.message = QuotaText
        \/ class = "Unknown" /\ ~thrown.billing /\ thrown.message = UnknownText(context)}

\* the patterns the message of a raw error contains, read as the classifier
\* reads it
Includes(raw) ==
    CASE raw.type = "string" -> raw.text
      [] raw.type = "object" /\ raw.nested.has -> raw.nested.includes
      [] raw.type = "object" /\ ~raw.nested.has /\ raw.message.has -> raw.message.includes
      [] OTHER -> {}

\* C23: the classifier gives every raw error exactly one class, by the
\* patterns its message contains and in this order: "billed users" is
\* BillingUnavailable whatever else it contains, else "API key not valid" is
\* InvalidCredential, else "quota" is QuotaExceeded, else (an error without
\* a message too) Unknown; and only BillingUnavailable is a billing error.
C23_ClassifierPrecedence ==
    svc.fn = "handleApiError" =>
        LET class == ClassOf(svc.thrown, svc.context)
            has == Includes(svc.error)
        IN  /\ Cardinality(class) = 1
            /\ class = IF "billed users" \in has THEN {"BillingUnavailable"}
                       ELSE IF "API key not valid" \in has THEN {"InvalidCredential"}
                       ELSE IF "quota" \in has THEN {"QuotaExceeded"}
                       ELSE {"Unknown"}
            /\ svc.thrown.billing <=> "billed users" \in has
            /\ svc.thrown.message \in {BillingText("geracao de imagens"),
                                       BillingText("geracao de video"),
                                       BillingText("esta funcionalidade")}
                  <=> svc.thrown.billing

\* an error whose message contains all three patterns has been classified as
\* a billing error
C23_Witness ==
    /\ svc.fn = "handleApiError"
    /\ svc.error.type = "object"
    /\ svc.error.message = HasMessage(ErrorPatterns)
    /\ ~svc.error.nested.has
    /\ svc.thrown.billing

\* the reports of a call that say the operation is not done
NotDone(reports) ==
    LET pending(operation) == ~operation.done
    IN  SelectSeq(reports, pending)

\* C22: generateVideo checks the status once after each wait, and waits once
\* for each report that the operation is not done (an operation done at
\* once is not checked again); it returns only when the operation is
\* reported done with a uri, and then exactly the uri followed by "&key="
\* and the key; a finished operation without a uri makes it throw.
C22_VideoPollsUntilDone ==
    svc.fn = "generateVideo" =>
        /\ svc.polls = IF svc.pc = "poll" THEN svc.waits - 1 ELSE svc.waits
        /\ svc.waits = IF svc.pc = "wait" THEN Len(NotDone(svc.reports)) - 1
                       ELSE Len(NotDone(svc.reports))
        /\ \A k \in 1..(Len(svc.reports) - 1) : ~svc.reports[k].done
        /\ (svc.reports # <<>> /\ svc.reports[1].done) => svc.polls = 0
        /\ svc.pc = "returned"
              => /\ svc.reports[Len(svc.reports)].done
                 /\ svc.reports[Len(svc.reports)].uri # Absent
                 /\ svc.result = svc.reports[Len(svc.reports)].uri \o "&key=" \o ApiKey
                 /\ svc.polls = Len(svc.reports) - 1
        /\ (svc.reports # <<>> /\ svc.reports[Len(svc.reports)].done
              /\ svc.reports[Len(svc.reports)].uri = Absent)
              => svc.pc = "thrown" /\ svc.result = Null

\* not done twice, then done with a uri: two checks, and the url returned
C22_Witness ==
    /\ svc.fn = "generateVideo"
    /\ svc.pc = "returned"
    /\ Len(svc.reports) = 3
    /\ svc.polls = 2
    /\ svc.result = "https://video/uri&key=KEY"

\* C24: what generateContentStream has yielded is the chunks with text, in
\* the order the provider gave them (a chunk without text yields nothing);
\* once the provider has failed nothing more is yielded, and what is thrown
\* is the classified error of the chat context.
C24_StreamYieldsNonEmptyChunks ==
    /\ [](svc.fn = "generateContentStream"
            => /\ svc.yielded = Fragments(svc.chunks)
               /\ svc.pc = "thrown"
                     => svc.thrown \in {BillingText("esta funcionalidade"), InvalidKeyText,
                                        QuotaText, UnknownText(ChatContext)})
    /\ [][(svc.fn = "generateContentStream" /\ svc.pc = "thrown")
             => svc' = svc]_vars
    /\ [][(\E raw \in ProviderErrors : GenStreamReject(raw))
             => svc'.pc = "thrown" /\ svc'.yielded = svc.yielded]_vars

\* the stream has failed after an empty chunk and a chunk with text
C24_Witness ==
    /\ svc.fn = "generateContentStream"
    /\ svc.pc = "thrown"
    /\ svc.chunks = <<"", "Hi">>
    /\ svc.yielded = <<"Hi">>
    /\ svc.thrown = QuotaText

\* C25: every accepted turn ends when what it waits for is settled: no call
\* is in flight for ever, and a call in flight leaves that state only as
\* committed or failed; and again and again no turn is in progress, the
\* flag is false and there is no in-flight message.  The step in which a turn
\* ends clears the flag (and, for a chat turn, the in-flight message), so
\* that the guard of the handlers lets the next request through.
C25_EveryTurnEnds ==
    /\ \A i \in Calls : []<>(~InFlight(i))
    /\ []<>(~TurnInProgress /\ isLoading = FALSE /\ streamingMessage = <<>>)
    /\ [][\A i \in Calls :
             InFlight(i) => inv'[i].pc \in Done \cup {"convert", "title", "stream",
                                                      "image", "video"}]_vars
    /\ [][\A i \in Calls :
             Returns(i)
                => /\ isLoading' = FALSE
                   /\ inv[i].kind = "chat" => streamingMessage' = <<>>
                   /\ inv[i].kind # "chat" => streamingMessage' = streamingMessage
                   /\ ~(isLoading' \/ activeSessionId' = Null)]_vars

\* a chat turn and a video turn have both ended, and the flag and the
\* in-flight message are clear
C25_Witness ==
    /\ \E i \in Calls : inv[i].kind = "chat" /\ inv[i].pc = "committed"
    /\ \E i \in Calls : inv[i].kind = "video" /\ inv[i].pc \in Done
    /\ isLoading = FALSE
    /\ streamingMessage = <<>>
    /\ activeSessionId # Null

\* the status checks of a call of generateVideo have all said not done, and
\* no check has failed
OnlyNotDone ==
    /\ svc.fn = "generateVideo"
    /\ svc.reports # <<>>
    /\ \A k \in 1..Len(svc.reports) : ~svc.reports[k].done
    /\ svc.thrown = Null

\* C26: the poll loop has no cap, so while the operation is not reported
\* done and no status check fails, the video turn stays where it is, the
\* flag stays true and every turn request is rejected.
C26_PollingHoldsGuard ==
    [][\A i \in Calls :
          (inv[i].pc = "video" /\ inv'[i].pc = "video")
             => /\ isLoading' = TRUE
                /\ TurnRequest => inv' = inv]_vars

\* the loop itself: after any number of not-done reports generateVideo has
\* neither returned nor thrown
C26_LoopHasNoCap ==
    OnlyNotDone => svc.pc \in {"wait", "poll"}

\* a step in which a chat turn fails with a billing error
ChatBillingFailure ==
    \E i \in Calls, error \in RawErrors :
        handleApiError(error, ChatContext).billing /\ StreamFail(i, error)

\* C27: a flag changes only when a turn of its own kind fails with a billing
\* error: a turn that succeeds, a failure of another class, a billing
\* failure of a chat turn and every other step leave both flags as they
\* are, and a billing failure of an image turn leaves the video flag as it
\* is (and the other way round).
C27_FlagsChangeOnlyByOwnBillingFailure ==
    /\ [][/\ isImageGenAvailable' # isImageGenAvailable => ImageBillingFailure
          /\ isVideoGenAvailable' # isVideoGenAvailable => VideoBillingFailure
          /\ ChatBillingFailure => UNCHANGED <<isImageGenAvailable, isVideoGenAvailable>>
          /\ ImageBillingFailure => UNCHANGED isVideoGenAvailable
          /\ VideoBillingFailure => UNCHANGED isImageGenAvailable]_vars
    /\ [](\A kind \in {"image", "video"}, error \in SUBSET ErrorPatterns :
             LET thrown == handleApiError(error, ContextOf(kind))
                 flags == FlagsAfterFailure(kind, thrown)
             IN  /\ "billed users" \notin error
                       => flags = [image |-> isImageGenAvailable,
                                   video |-> isVideoGenAvailable]
                 /\ kind = "image" => flags.video = isVideoGenAvailable
                 /\ kind = "video" => flags.image = isImageGenAvailable)

\* a chat turn and an image turn have both failed with a billing error: the
\* image flag is false and the video flag is still true
C27_Witness ==
    /\ \E i \in Calls : /\ inv[i].kind = "chat"
                          /\ inv[i].pc = "failed"
                          /\ inv[i].outcome[1].text
                                = ErrorPrefix \o BillingText("esta funcionalidade")
    /\ \E i \in Calls : /\ inv[i].kind = "image"
                          /\ inv[i].pc = "failed"
                          /\ inv[i].outcome[1].text
                                = ErrorPrefix \o BillingText("geracao de imagens")
    /\ isImageGenAvailable = FALSE
    /\ isVideoGenAvailable = TRUE

\* no two sessions of the collection share an id
UniqueIds(c) == \A k, k2 \in 1..Len(c) : c[k].id = c[k2].id => k = k2

\* chat call i has saved its user message and has not ended, before and
\* after the step
Answering(i) ==
    /\ inv[i].kind = "chat"
    /\ inv[i].pc \in {"title", "stream"}
    /\ inv'[i].pc \in {"title", "stream"}

\* C28: the in-flight message is never saved: from the saving of a chat
\* turn's user message until the turn commits or fails, no step of a turn
\* changes the saved transcript of the turn's session, however many
\* fragments arrive.
C28_TranscriptFixedWhileAnswering ==
    [][\A i \in Calls :
          (Answering(i) /\ TurnStep /\ UniqueIds(store))
             => \A k \in 1..Len(store), k2 \in 1..Len(store') :
                   (store[k].id = inv[i].activeSessionId /\ store'[k2].id = store[k].id)
                      => store'[k2].messages = store[k].messages]_vars

\* the turn's own steps in that time (the title coming back, a fragment
\* arriving) save no message: the saved transcripts are left as they are
C28_OwnStepsSaveNothing ==
    [][\A i \in Calls :
          (Answering(i) /\ inv'[i] # inv[i])
             => /\ [k \in 1..Len(store') |-> <<store'[k].id, store'[k].messages>>]
                      = [k \in 1..Len(store) |-> <<store[k].id, store[k].messages>>]
                /\ inv'[i].chunks # inv[i].chunks => store' = store /\ sessions' = sessions]_vars

\* chat call i gets past `if (!userMessageText) return` in this step: its
\* user message is saved and its first request to the provider goes out
Accepted(i) ==
    /\ inv[i].pc \in {"free", "convert"}
    /\ inv'[i].pc \in {"title", "stream"}

\* the user message of chat call i, as it is saved
UserMessageOf(call) ==
    JSONMessage(Message("user", call.messageText,
                        IF call.imageFile THEN BlobUrl ELSE Undefined, Absent))

\* C29: in an accepted chat turn, by the time the provider is contacted the
\* query is at the front of the search history and the user message has
\* been added to the end of the session's saved transcript; a send with an
\* image and no text has the default prompt as its text; and a send with no
\* text and no image changes nothing and starts no turn.
C29_UserMessageSavedFirst ==
    [][/\ \A i \in Calls :
             Accepted(i)
                => /\ search' # <<>> /\ search'[1] = inv'[i].messageText
                   /\ inv'[i].messageText # ""
                   /\ (inv[i].pc = "convert" /\ inv[i].messageText = "")
                         => inv'[i].messageText = DefaultImagePrompt
                   /\ UniqueIds(store)
                         => \A k \in 1..Len(store), k2 \in 1..Len(store') :
                               (store[k].id = inv'[i].activeSessionId
                                  /\ store'[k2].id = store[k].id)
                                  => store'[k2].messages
                                        = Append(store[k].messages, UserMessageOf(inv'[i]))
       /\ handleSendMessage("", FALSE) => UNCHANGED vars]_vars

\* C30: once the application is mounted, the active session id is the id of
\* a session of the in-memory collection, whatever lifecycle operations and
\* turns have happened, a turn's commit after a lifecycle operation too.
C30_ActiveSessionInMemory ==
    mounted => activeSessionId \in Ids(sessions)

====
